---- MODULE Spec2Model ----
(***************************************************************************)
(* AI Study Buddy: the output parsers and the model client of utils.py,    *)
(* and the session handlers, the CSV export and the diagram builder of     *)
(* app.py.                                                                 *)
(*                                                                         *)
(* A Python str is a sequence of characters; a character is a string of    *)
(* length one ("\n" is the line feed, "\\" the backslash, "\"" the double  *)
(* quote).  Two characters that TLA+ strings cannot hold are written by    *)
(* name: "ELLIPSIS" is U+2026 and "EMDASH" is U+2014.  Python's None is    *)
(* the value NONE, which is no str.                                        *)
(***************************************************************************)
EXTENDS Integers, Sequences, FiniteSets, TLC

VARIABLES
    ss,     \* st.session_state: summary, generated_topic, flashcards, quiz,
            \* answers, score, flashcards_order, quiz_epoch, the two counts
    err,    \* how the last script run ended: "none" or "model_call"
    rows,   \* the result table of the last quiz submission
    csv,    \* the quiz-results CSV of the last quiz submission
    fn,     \* the handler or function that ran last ("input" before any)
    arg,    \* the input of the function under check
    ret,    \* what it returned
    calls   \* the model calls of the last script run: the events of their
            \* start and of their return or exception, in order

vars == <<ss, err, rows, csv, fn, arg, ret, calls>>

(***************************************************************************)
(* Python str and list operations                                          *)
(***************************************************************************)
NONE == <<"None">>

Whitespace == {" ", "\n"}

Min(a, b) == IF a <= b THEN a ELSE b

\* s[k:]
Drop(s, k) == SubSeq(s, k + 1, Len(s))

\* s[:k], k >= 0
Take(s, k) == SubSeq(s, 1, Min(k, Len(s)))

\* bool(x) of a str or None
Truthy(x) == x # NONE /\ x # <<>>

\* bool(x) of a list
NonEmpty(x) == Len(x) > 0

RECURSIVE LStrip(_)
LStrip(s) ==
    IF s # <<>> /\ Head(s) \in Whitespace THEN LStrip(Tail(s)) ELSE s

RECURSIVE RStrip(_)
RStrip(s) ==
    IF s # <<>> /\ s[Len(s)] \in Whitespace
    THEN RStrip(SubSeq(s, 1, Len(s) - 1))
    ELSE s

\* str.strip()
Strip(s) == RStrip(LStrip(s))

\* str.startswith(p)
StartsWith(s, p) == Len(s) >= Len(p) /\ SubSeq(s, 1, Len(p)) = p

\* str.replace(old, new): every occurrence, left to right, not overlapping
RECURSIVE Replace(_, _, _)
Replace(s, old, new) ==
    IF Len(s) < Len(old) THEN s
    ELSE IF SubSeq(s, 1, Len(old)) = old
         THEN new \o Replace(Drop(s, Len(old)), old, new)
         ELSE <<Head(s)>> \o Replace(Tail(s), old, new)

\* str.split(sep) for a one-character sep: empty pieces are kept
RECURSIVE Split(_, _)
Split(s, sep) ==
    IF \A i \in 1..Len(s) : s[i] # sep THEN <<s>>
    ELSE LET i == CHOOSE j \in 1..Len(s) :
                      s[j] = sep /\ \A k \in 1..(j - 1) : s[k] # sep
         IN  <<SubSeq(s, 1, i - 1)>> \o Split(Drop(s, i), sep)

\* str.splitlines(): a line feed ends a line, the last line needs none
splitlines(s) ==
    IF s = <<>> THEN <<>>
    ELSE LET parts == Split(s, "\n")
         IN  IF parts[Len(parts)] = <<>>
             THEN SubSeq(parts, 1, Len(parts) - 1)
             ELSE parts

\* str.split(): pieces between runs of whitespace, none of them empty
RECURSIVE SplitWords(_)
SplitWords(s) ==
    LET t == LStrip(s)
    IN  IF t = <<>> THEN <<>>
        ELSE LET n == CHOOSE j \in 1..Len(t) :
                          /\ \A k \in 1..j : t[k] \notin Whitespace
                          /\ (j = Len(t) \/ t[j + 1] \in Whitespace)
             IN  <<SubSeq(t, 1, n)>> \o SplitWords(Drop(t, n))

\* sep.join(parts)
RECURSIVE Join(_, _)
Join(parts, sep) ==
    IF Len(parts) = 0 THEN <<>>
    ELSE IF Len(parts) = 1 THEN parts[1]
    ELSE parts[1] \o sep \o Join(Tail(parts), sep)

(***************************************************************************)
(* utils.py: the model client and the two output parsers                   *)
(***************************************************************************)
\* The reply of a model call that raised instead of returning.
FAILED == <<"Raised">>

QPrefix == <<"Q", ":">>
APrefix == <<"A", ":">>
OptionsPrefix == <<"O", "p", "t", "i", "o", "n", "s", ":">>
AnswerPrefix == <<"A", "n", "s", "w", "e", "r", ":">>

\* call_openai: the content of the reply, stripped
call_openai(content) == Strip(content)

\* line[2:].strip(): the text of a "Q:" line
QuestionOf_Untrimmed(line) == Drop(line, Len(QPrefix))
QuestionOf(line) == Strip(Drop(line, Len(QPrefix)))

\* line[2:].strip(): the text of an "A:" line
AnswerOf(line) == Strip(Drop(line, Len(APrefix)))

\* len(cards) >= n, len(quizzes) >= n: the loop stops
Reached_OneEarly(items, n) == Len(items) >= n - 1
Reached(items, n) == Len(items) >= n

\* generate_flashcards, the loop over text.splitlines() from line i on
RECURSIVE FlashLoop(_, _, _, _, _)
FlashLoop(lines, i, cards, question, n) ==
    IF i > Len(lines) THEN cards
    ELSE LET line == Strip(lines[i])
             isQ == StartsWith(line, QPrefix)
             isA == ~isQ /\ StartsWith(line, APrefix) /\ Truthy(question)
             question1 == IF isQ THEN QuestionOf(line)
                          ELSE IF isA THEN NONE ELSE question
             cards1 == IF isA
                       THEN Append(cards, [question |-> question,
                                           answer |-> AnswerOf(line)])
                       ELSE cards
         IN  IF Reached(cards1, n) THEN cards1
             ELSE FlashLoop(lines, i + 1, cards1, question1, n)

\* generate_flashcards on the reply the model call returned
generate_flashcards(content, n) ==
    Take(FlashLoop(splitlines(call_openai(content)), 1, <<>>, NONE, n), n)

\* generate_quiz, the tokens of an "Options:" line
OptionTokens(line) ==
    LET opts_text == Strip(Drop(line, Len(OptionsPrefix)))
        a == Replace(opts_text, <<"A", ")">>, <<"|", "A", ")">>)
        b == Replace(a, <<"B", ")">>, <<"|", "B", ")">>)
        c == Replace(b, <<"C", ")">>, <<"|", "C", ")">>)
        d == Replace(c, <<"D", ")">>, <<"|", "D", ")">>)
    IN  SelectSeq(Split(d, "|"), LAMBDA t : t # <<>>)

\* generate_quiz, the options of an "Options:" line
ParseOptions(line) ==
    LET tokens == OptionTokens(line)
    IN  [k \in 1..Len(tokens) |->
            LET t == Strip(tokens[k])
            IN  IF Len(t) >= 2 /\ t[2] = ")" THEN Strip(Drop(t, 2)) ELSE t]

\* options[:4]: the options an "Answer:" line closes the item with
ItemOptions_Uncut(options) == options
ItemOptions(options) == Take(options, 4)

\* generate_quiz, the loop over text.splitlines() from line i on
RECURSIVE QuizLoop(_, _, _, _, _, _)
QuizLoop(lines, i, quizzes, question, options, n) ==
    IF i > Len(lines) THEN quizzes
    ELSE LET line == Strip(lines[i])
             isQ == StartsWith(line, QPrefix)
             isO == ~isQ /\ StartsWith(line, OptionsPrefix)
             isAns == /\ ~isQ /\ ~isO
                      /\ StartsWith(line, AnswerPrefix) /\ Truthy(question)
             question1 == IF isQ THEN QuestionOf(line)
                          ELSE IF isAns THEN NONE ELSE question
             options1 == IF isO THEN ParseOptions(line)
                         ELSE IF isAns THEN <<>> ELSE options
             quizzes1 ==
                 IF isAns
                 THEN Append(quizzes,
                             [question |-> question,
                              options |-> ItemOptions(options),
                              answer |-> Strip(Drop(line, Len(AnswerPrefix)))])
                 ELSE quizzes
         IN  IF Reached(quizzes1, n) THEN quizzes1
             ELSE QuizLoop(lines, i + 1, quizzes1, question1, options1, n)

\* generate_quiz on the reply the model call returned
generate_quiz(content, n) ==
    Take(QuizLoop(splitlines(call_openai(content)), 1, <<>>, NONE, <<>>, n), n)

(***************************************************************************)
(* The parsers under check: the replies a model call can return, drawn     *)
(* from line kinds that cover the grammar of FLASHCARDS_PROMPT and         *)
(* QUIZ_PROMPT and the ways a reply drifts from it.                        *)
(***************************************************************************)
MaxBlocks == 3      \* Q/A blocks of a well-formed flashcard reply
MaxLines == 4       \* lines of a free-form flashcard reply
MaxQuizLines == 4   \* lines of a free-form quiz reply
MaxN == 3           \* the requested count n

\* All sequences over S of length lo..hi
SeqsOf(S, lo, hi) == UNION {[1..k -> S] : k \in lo..hi}

QuestionTexts == {<<"a">>, <<"b", " ", "c">>}
AnswerTexts == {<<"x">>, <<>>}
\* the whitespace around the prefix and the text of a line
Pads == {[lead |-> <<>>, mid |-> <<" ">>, trail |-> <<>>],
         [lead |-> <<" ">>, mid |-> <<>>, trail |-> <<" ", " ">>]}

Blocks == [q : QuestionTexts, a : AnswerTexts, pad : Pads]

PrefixedLine(prefix, pad, text) ==
    pad.lead \o prefix \o pad.mid \o text \o pad.trail

\* the two lines of block b
BlockLines(b) == <<PrefixedLine(QPrefix, b.pad, b.q),
                   PrefixedLine(APrefix, b.pad, b.a)>>

\* the concatenation of the sequences of seqs
RECURSIVE Flatten(_)
Flatten(seqs) ==
    IF Len(seqs) = 0 THEN <<>> ELSE Head(seqs) \o Flatten(Tail(seqs))

\* a reply that consists of the blocks bs and nothing else
CardsReply(bs) ==
    Join(Flatten([k \in 1..Len(bs) |-> BlockLines(bs[k])]), <<"\n">>)

\* the lines of a free-form flashcard reply: kind is what the line is to the
\* grammar, text what follows its prefix once trimmed
FlashLines ==
    {[kind |-> "Q", text |-> <<"a">>, line |-> <<"Q", ":", " ", "a">>],
     [kind |-> "Q", text |-> <<"b">>, line |-> <<" ", "Q", ":", "b", " ">>],
     [kind |-> "Q", text |-> <<>>, line |-> <<"Q", ":">>],
     [kind |-> "A", text |-> <<"x">>, line |-> <<"A", ":", " ", "x">>],
     [kind |-> "A", text |-> <<>>, line |-> <<"A", ":", " ">>],
     [kind |-> "other", text |-> <<>>, line |-> <<"n", "o", "t", "e">>]}

LinesReply(ls) == Join([k \in 1..Len(ls) |-> ls[k].line], <<"\n">>)

OptionTexts == {<<"x">>, <<"y", " ", "z">>, <<"a", "|", "b">>, <<"N", "A", ")">>}
QuizQuestions == {<<"q">>, <<"w", "h", "y", "?">>}

\* Q: q / Options: A) x B) y C) z D) w / Answer: y
QuizBlock(q, o) ==
    <<QPrefix \o <<" ">> \o q,
      OptionsPrefix \o <<" ", "A", ")", " ">> \o o[1] \o <<" ", "B", ")", " ">>
          \o o[2] \o <<" ", "C", ")", " ">> \o o[3] \o <<" ", "D", ")", " ">>
          \o o[4],
      AnswerPrefix \o <<" ">> \o o[2]>>

QuizBlockReply(q, o) == Join(QuizBlock(q, o), <<"\n">>)

Opt(letter, text) == <<letter, ")", " ">> \o text

QuizLines ==
    {[kind |-> "Q", line |-> <<"Q", ":", " ", "q">>],
     [kind |-> "Q", line |-> <<"Q", ":", " ", "r">>],
     [kind |-> "O", line |-> OptionsPrefix \o <<" ">> \o Opt("A", <<"x">>)
                              \o <<" ">> \o Opt("B", <<"y">>)
                              \o <<" ">> \o Opt("C", <<"z">>)
                              \o <<" ">> \o Opt("D", <<"w">>)],
     [kind |-> "O", line |-> OptionsPrefix \o <<" ">> \o Opt("A", <<"x">>)
                              \o <<" ">> \o Opt("B", <<"y">>)],
     [kind |-> "O", line |-> OptionsPrefix \o <<" ">> \o Opt("A", <<"x">>)
                              \o <<" ">> \o Opt("B", <<"y">>)
                              \o <<" ">> \o Opt("C", <<"z">>)
                              \o <<" ">> \o Opt("D", <<"w">>)
                              \o <<" ">> \o Opt("A", <<"v">>)],
     [kind |-> "Ans", line |-> AnswerPrefix \o <<" ", "y">>]}

ParserInputs ==
    {[family |-> "cards", blocks |-> bs, lines |-> <<>>,
      reply |-> CardsReply(bs), n |-> n] :
        bs \in SeqsOf(Blocks, 1, MaxBlocks), n \in 0..MaxN}
    \cup
    {[family |-> "lines", blocks |-> <<>>, lines |-> ls,
      reply |-> LinesReply(ls), n |-> n] :
        ls \in SeqsOf(FlashLines, 0, MaxLines), n \in 0..MaxN}
    \cup
    {[family |-> "quiz", blocks |-> <<[q |-> q, o |-> o]>>, lines |-> <<>>,
      reply |-> QuizBlockReply(q, o), n |-> n] :
        q \in QuizQuestions, o \in [1..4 -> OptionTexts], n \in 1..MaxN}
    \cup
    {[family |-> "quizlines", blocks |-> <<>>, lines |-> ls,
      reply |-> LinesReply(ls), n |-> n] :
        ls \in SeqsOf(QuizLines, 0, MaxQuizLines), n \in 0..MaxN}

InitParser ==
    /\ arg \in ParserInputs
    /\ fn = "input"
    /\ ret = <<>>
    /\ ss = <<>>
    /\ err = "none"
    /\ rows = <<>>
    /\ csv = <<>>
    /\ calls = <<>>

RunFlashcards ==
    /\ fn = "input"
    /\ arg.family \in {"cards", "lines"}
    /\ ret' = generate_flashcards(arg.reply, arg.n)
    /\ fn' = "generate_flashcards"
    /\ UNCHANGED <<ss, err, rows, csv, arg, calls>>

RunQuiz ==
    /\ fn = "input"
    /\ arg.family \in {"quiz", "quizlines"}
    /\ ret' = generate_quiz(arg.reply, arg.n)
    /\ fn' = "generate_quiz"
    /\ UNCHANGED <<ss, err, rows, csv, arg, calls>>

NextParser == RunFlashcards \/ RunQuiz

SpecParser == InitParser /\ [][NextParser]_vars

(***************************************************************************)
(* app.py: the session state and the handlers of one script run            *)
(***************************************************************************)
MaxEpoch == 2   \* quiz_epoch stops growing here

Quote == "\""

\* ss.setdefault(...): the session state of a new session
InitialSession ==
    [summary |-> <<>>,
     generated_topic |-> NONE,
     flashcards |-> <<>>,
     quiz |-> <<>>,
     answers |-> <<>>,
     score |-> 0,
     flashcards_order |-> <<>>,
     quiz_epoch |-> 0]

\* list(range(k))
Range(k) == [i \in 1..k |-> i - 1]

\* {f"quiz_{i}": None for i in range(k)}: the key quiz_i is the number i
UnsetAnswers(k) == [i \in 0..(k - 1) |-> NONE]

\* generate_summary on the reply the model call returned
generate_summary(content) == call_openai(content)

\* what the sidebar and the model calls of a session can give
Topics == {<<"t">>, <<"u">>}
Counts == {1, 2}

SummaryReplies == {<<"s", "1">>, <<" ", "s", "2", "\n">>, <<>>}

FlashReplies ==
    {<<"Q", ":", " ", "a", "\n", "A", ":", " ", "x">>,
     <<"Q", ":", " ", "a", "\n", "A", ":", " ", "x", "\n",
       "Q", ":", " ", "b", "\n", "A", ":", " ", "y">>}

\* one item whose answer is its second option; two items, the first with a
\* double quote in its question and in an option, the second with an answer
\* that is none of its options
QuizReplies ==
    {Join(<<QPrefix \o <<" ", "q">>,
            OptionsPrefix \o <<" ">> \o Opt("A", <<"x">>) \o <<" ">>
                \o Opt("B", <<"y">>) \o <<" ">> \o Opt("C", <<"z">>)
                \o <<" ">> \o Opt("D", <<"w">>),
            AnswerPrefix \o <<" ", "y">>>>, <<"\n">>),
     Join(<<QPrefix \o <<" ", "a", " ", Quote, "b", Quote>>,
            OptionsPrefix \o <<" ">> \o Opt("A", <<"x">>) \o <<" ">>
                \o Opt("B", <<Quote, "y">>),
            AnswerPrefix \o <<" ", "x">>,
            QPrefix \o <<" ", "r">>,
            OptionsPrefix \o <<" ">> \o Opt("A", <<"x">>) \o <<" ">>
                \o Opt("B", <<"y">>),
            AnswerPrefix \o <<" ", "B">>>>, <<"\n">>)}

\* generate_flashcards and generate_quiz for every reply and count of a
\* session, evaluated once
FlashcardsFor ==
    [r \in FlashReplies, n \in Counts |-> generate_flashcards(r, n)]
QuizFor == [r \in QuizReplies, n \in Counts |-> generate_quiz(r, n)]

\* topic != ss.generated_topic or not ss.summary: the summary call is made
CallsSummary(s, topic) == topic # s.generated_topic \/ ~Truthy(s.summary)

\* ss.summary = generate_summary(topic); ss.generated_topic = topic
WithSummary(s, topic, sreply) ==
    IF CallsSummary(s, topic)
    THEN [s EXCEPT !.summary = generate_summary(sreply),
                   !.generated_topic = topic]
    ELSE s

\* ss.flashcards = generate_flashcards(topic, n=flashcard_count, ...)
WithFlashcards(s, freply, flashcard_count) ==
    [s EXCEPT !.flashcards = FlashcardsFor[freply, flashcard_count]]

\* ss.quiz = generate_quiz(...) and the four assignments after it
WithQuiz_OrderKept(s, qreply, quiz_count) ==
    LET quiz == QuizFor[qreply, quiz_count]
    IN  [s EXCEPT !.quiz = quiz,
                  !.answers = UnsetAnswers(Len(quiz)),
                  !.quiz_epoch = s.quiz_epoch + 1]
WithQuiz(s, qreply, quiz_count) ==
    LET quiz == QuizFor[qreply, quiz_count]
    IN  [s EXCEPT !.quiz = quiz,
                  !.answers = UnsetAnswers(Len(quiz)),
                  !.flashcards_order = Range(Len(s.flashcards)),
                  !.quiz_epoch = s.quiz_epoch + 1]

\* A model call of the run: the handler calls the function and goes on when
\* it has returned, or ends with the exception it raised
CallEvents_NotAwaited(name, raises) == <<[ev |-> "start", call |-> name]>>
CallEvents(name, raises) ==
    <<[ev |-> "start", call |-> name],
      [ev |-> IF raises THEN "raised" ELSE "returned", call |-> name]>>

\* the summary call of a Generate run, if it is made and returns
SummaryCall(s, topic) ==
    IF CallsSummary(s, topic) THEN CallEvents("generate_summary", FALSE)
    ELSE <<>>

\* The run of "if generate_button:" ends with session state s, by an
\* exception of a model call (failed) or normally
GenerateEnds(s, failed) ==
    /\ ss' = s
    /\ err' = IF failed THEN "model_call" ELSE "none"
    /\ fn' = "generate"
    /\ rows' = <<>>
    /\ csv' = <<>>
    /\ UNCHANGED <<arg, ret>>

\* Generate / Refresh, the summary call raising
GenerateSummaryFails(topic) ==
    /\ ss.quiz_epoch < MaxEpoch
    /\ CallsSummary(ss, topic)
    /\ GenerateEnds(ss, TRUE)
    /\ calls' = CallEvents("generate_summary", TRUE)

\* Generate / Refresh, the flashcard call raising (sreply is the reply of
\* the summary call, if one is made)
GenerateFlashcardsFails(topic, sreply) ==
    /\ ss.quiz_epoch < MaxEpoch
    /\ GenerateEnds(WithSummary(ss, topic, sreply), TRUE)
    /\ calls' = SummaryCall(ss, topic)
                  \o CallEvents("generate_flashcards", TRUE)

\* Generate / Refresh, the quiz call raising
GenerateQuizFails(topic, flashcard_count, sreply, freply) ==
    /\ ss.quiz_epoch < MaxEpoch
    /\ GenerateEnds(WithFlashcards(WithSummary(ss, topic, sreply),
                                   freply, flashcard_count), TRUE)
    /\ calls' = SummaryCall(ss, topic)
                  \o CallEvents("generate_flashcards", FALSE)
                  \o CallEvents("generate_quiz", TRUE)

\* Generate / Refresh, every model call returning
GenerateDone(topic, flashcard_count, quiz_count, sreply, freply, qreply) ==
    /\ ss.quiz_epoch < MaxEpoch
    /\ GenerateEnds(WithQuiz(WithFlashcards(WithSummary(ss, topic, sreply),
                                            freply, flashcard_count),
                             qreply, quiz_count), FALSE)
    /\ calls' = SummaryCall(ss, topic)
                  \o CallEvents("generate_flashcards", FALSE)
                  \o CallEvents("generate_quiz", FALSE)

\* "Shuffle order": random.shuffle leaves any permutation of the order
Shuffled(order) ==
    {[i \in 1..Len(order) |-> order[p[i]]] :
        p \in {q \in [1..Len(order) -> 1..Len(order)] :
                  \A a, b \in 1..Len(order) : a # b => q[a] # q[b]}}

Shuffle ==
    /\ NonEmpty(ss.flashcards)
    /\ \E order \in Shuffled(IF NonEmpty(ss.flashcards_order)
                                 THEN ss.flashcards_order
                                 ELSE Range(Len(ss.flashcards))) :
           ss' = [ss EXCEPT !.flashcards_order = order]
    /\ err' = "none"
    /\ fn' = "shuffle"
    /\ rows' = <<>>
    /\ csv' = <<>>
    /\ calls' = <<>>
    /\ UNCHANGED <<arg, ret>>

\* csv_escape
csv_escape(text) ==
    Strip(Replace(Replace(IF text = NONE THEN <<>> ELSE text,
                          <<Quote>>, <<Quote, Quote>>),
                  <<"\n">>, <<" ">>))

Placeholder ==
    <<"EMDASH", " ", "S", "e", "l", "e", "c", "t", " ", "a", "n", " ",
      "a", "n", "s", "w", "e", "r", " ", "EMDASH">>

\* options_display of quiz item q
OptionsDisplay(q) == <<Placeholder>> \o q.options

\* what the radios of the form can hold: per item, an index into
\* options_display (1 is the placeholder)
Choices(quiz) ==
    {c \in [0..(Len(quiz) - 1) -> 1..5] :
        \A i \in 0..(Len(quiz) - 1) : c[i] <= Len(OptionsDisplay(quiz[i + 1]))}

\* ss.answers[qid] = None if choice == placeholder else choice
StoredChoice_Raw(choice) == choice
StoredChoice(choice) == IF choice = Placeholder THEN NONE ELSE choice

\* the loop of the quiz form: every item's radio value goes to ss.answers
FormAnswers(quiz, c) ==
    [i \in 0..(Len(quiz) - 1) |-> StoredChoice(OptionsDisplay(quiz[i + 1])[c[i]])]

Correct == <<"C", "o", "r", "r", "e", "c", "t">>
Wrong == <<"W", "r", "o", "n", "g">>

\* result = "Correct" if user_ans == correct else "Wrong"
Result_AnyAnswered(user_ans, correct) ==
    IF user_ans # NONE THEN Correct ELSE Wrong
Result(user_ans, correct) == IF user_ans = correct THEN Correct ELSE Wrong

CsvHeader ==
    <<"Q", "u", "e", "s", "t", "i", "o", "n", ",",
      "Y", "o", "u", "r", " ", "A", "n", "s", "w", "e", "r", ",",
      "C", "o", "r", "r", "e", "c", "t", " ", "A", "n", "s", "w", "e", "r", ",",
      "R", "e", "s", "u", "l", "t", "\n">>

\* the row out.write(...) adds for one item
QuizCsvRow(question, user_ans, correct, result) ==
    LET qtext_csv == csv_escape(question)
        user_csv == csv_escape(IF Truthy(user_ans) THEN user_ans ELSE <<>>)
        corr_csv == csv_escape(correct)
    IN  Replace(<<Quote>> \o qtext_csv \o <<Quote, ",", Quote, Quote>>
                    \o user_csv \o <<Quote, Quote, ",", Quote, Quote>>
                    \o corr_csv \o <<Quote, Quote, ",", Quote, Quote>>
                    \o result \o <<Quote, Quote, "\n">>,
                <<Quote, Quote>>, <<Quote>>)

\* "if submitted:": the table rows of the quiz summary
ResultRows(quiz, answers) ==
    [k \in 1..Len(quiz) |->
        [Question |-> quiz[k].question,
         YourAnswer |-> answers[k - 1],
         CorrectAnswer |-> quiz[k].answer,
         Result |-> Result(answers[k - 1], quiz[k].answer)]]

RECURSIVE QuizCsvRows(_, _, _)
QuizCsvRows(quiz, answers, k) ==
    IF k > Len(quiz) THEN <<>>
    ELSE QuizCsvRow(quiz[k].question, answers[k - 1], quiz[k].answer,
                    Result(answers[k - 1], quiz[k].answer))
         \o QuizCsvRows(quiz, answers, k + 1)

\* ss.score after the loop
Score(quiz, answers) ==
    Cardinality({k \in 1..Len(quiz) : answers[k - 1] = quiz[k].answer})

\* "Submit All Answers": the form stores the choices c, then the items are
\* scored and the CSV is written
Submit ==
    /\ NonEmpty(ss.quiz)
    /\ \E c \in Choices(ss.quiz) :
        LET answers == FormAnswers(ss.quiz, c)
        IN  /\ ss' = [ss EXCEPT !.answers = answers,
                                !.score = Score(ss.quiz, answers)]
            /\ rows' = ResultRows(ss.quiz, answers)
            /\ csv' = CsvHeader \o QuizCsvRows(ss.quiz, answers, 1)
            /\ arg' = c
    /\ err' = "none"
    /\ fn' = "submit"
    /\ calls' = <<>>
    /\ UNCHANGED ret

\* "Reset Answers": the form stores its choices, then every answer is unset
\* and the epoch bumped, and the rerun draws the radios on the placeholder
ResetAnswers ==
    /\ NonEmpty(ss.quiz)
    /\ ss.quiz_epoch < MaxEpoch
    /\ ss' = [ss EXCEPT !.answers = UnsetAnswers(Len(ss.quiz)),
                        !.quiz_epoch = ss.quiz_epoch + 1]
    /\ err' = "none"
    /\ fn' = "reset"
    /\ rows' = <<>>
    /\ csv' = <<>>
    /\ calls' = <<>>
    /\ UNCHANGED <<arg, ret>>

Init ==
    /\ ss = InitialSession
    /\ err = "none"
    /\ rows = <<>>
    /\ csv = <<>>
    /\ calls = <<>>
    /\ fn = "input"
    /\ arg = <<>>
    /\ ret = <<>>

\* the replies the summary call can give for this click: none if no call
SummaryOutcomes(topic) ==
    IF CallsSummary(ss, topic) THEN SummaryReplies ELSE {NONE}

ClickSummaryFails == \E topic \in Topics : GenerateSummaryFails(topic)

ClickFlashcardsFails ==
    \E topic \in Topics :
        \E sreply \in SummaryOutcomes(topic) :
            GenerateFlashcardsFails(topic, sreply)

ClickQuizFails ==
    \E topic \in Topics, flashcard_count \in Counts, freply \in FlashReplies :
        \E sreply \in SummaryOutcomes(topic) :
            GenerateQuizFails(topic, flashcard_count, sreply, freply)

ClickDone ==
    \E topic \in Topics, flashcard_count \in Counts, quiz_count \in Counts,
       freply \in FlashReplies, qreply \in QuizReplies :
        \E sreply \in SummaryOutcomes(topic) :
            GenerateDone(topic, flashcard_count, quiz_count,
                         sreply, freply, qreply)

Next ==
    \/ ClickSummaryFails
    \/ ClickFlashcardsFails
    \/ ClickQuizFails
    \/ ClickDone
    \/ Shuffle
    \/ Submit
    \/ ResetAnswers

Spec == Init /\ [][Next]_vars

(***************************************************************************)
(* utils.py: the model client under check.  A run of a function that calls *)
(* the model ends with what it raised ("none" if it returned), the number  *)
(* of requests that went out to the model API, and the value returned.     *)
(***************************************************************************)
ConfigError == "RuntimeError: OPENAI_API_KEY is missing."
InitError == "RuntimeError: OpenAI client init failed"
ApiError == "error raised by client.chat.completions.create"

\* if not key
KeyMissing_Ignored(key) == FALSE
KeyMissing(key) == ~Truthy(key)

\* _get_openai_client: what it raises, "none" when it returns the client
_get_openai_client(env) ==
    IF KeyMissing(env.key) THEN ConfigError
    ELSE IF ~env.openai_installed THEN InitError
    ELSE "none"

\* call_openai in environment env, the API answering the request with reply
\* (FAILED: the request raises)
CallOpenAI(env, reply) ==
    LET client == _get_openai_client(env)
    IN  IF client # "none"
        THEN [raised |-> client, requests |-> 0, value |-> NONE]
        ELSE IF reply = FAILED
        THEN [raised |-> ApiError, requests |-> 1, value |-> NONE]
        ELSE [raised |-> "none", requests |-> 1, value |-> call_openai(reply)]

\* a generate_* function: one call_openai, then the parse of what it returned
Generated(env, reply, parsed) ==
    LET r == CallOpenAI(env, reply)
    IN  IF r.raised # "none" THEN r ELSE [r EXCEPT !.value = parsed]

\* os.getenv("OPENAI_API_KEY"): unset, empty or set; the openai package
\* importable or not
ClientEnvs == [key : {NONE, <<>>, <<"k">>}, openai_installed : BOOLEAN]

ClientFns ==
    {"call_openai", "generate_summary", "generate_flashcards", "generate_quiz"}

ApiReplies == {FAILED} \cup SummaryReplies \cup FlashReplies \cup QuizReplies

ClientInputs == [env : ClientEnvs, fn : ClientFns, reply : ApiReplies, n : Counts]

InitClient ==
    /\ arg \in ClientInputs
    /\ fn = "input"
    /\ ret = <<>>
    /\ ss = <<>>
    /\ err = "none"
    /\ rows = <<>>
    /\ csv = <<>>
    /\ calls = <<>>

\* the function arg.fn has run and ended with r
ClientRan(r) ==
    /\ fn = "input"
    /\ fn' = arg.fn
    /\ ret' = r
    /\ UNCHANGED <<ss, err, rows, csv, arg, calls>>

RunCallOpenAI ==
    /\ arg.fn = "call_openai"
    /\ ClientRan(CallOpenAI(arg.env, arg.reply))

RunGenerateSummary ==
    /\ arg.fn = "generate_summary"
    /\ ClientRan(Generated(arg.env, arg.reply, generate_summary(arg.reply)))

RunGenerateFlashcards ==
    /\ arg.fn = "generate_flashcards"
    /\ ClientRan(Generated(arg.env, arg.reply,
                           generate_flashcards(arg.reply, arg.n)))

RunGenerateQuiz ==
    /\ arg.fn = "generate_quiz"
    /\ ClientRan(Generated(arg.env, arg.reply, generate_quiz(arg.reply, arg.n)))

NextClient ==
    \/ RunCallOpenAI
    \/ RunGenerateSummary
    \/ RunGenerateFlashcards
    \/ RunGenerateQuiz

SpecClient == InitClient /\ [][NextClient]_vars

(***************************************************************************)
(* app.py: the summary diagram                                             *)
(***************************************************************************)
\* the first index >= i at which sub occurs in s, 0 if there is none
Find(s, sub, i) ==
    LET at == {j \in i..(Len(s) - Len(sub) + 1) :
                   SubSeq(s, j, j + Len(sub) - 1) = sub}
    IN  IF at = {} THEN 0 ELSE CHOOSE j \in at : \A k \in at : j <= k

\* str.split(sep) for a str sep
RECURSIVE SplitOn(_, _)
SplitOn(s, sep) ==
    LET i == Find(s, sep, 1)
    IN  IF i = 0 THEN <<s>>
        ELSE <<SubSeq(s, 1, i - 1)>> \o SplitOn(Drop(s, i + Len(sep) - 1), sep)

\* _strip_html: re.sub(r"<[^>]+>", "", text)
RECURSIVE _strip_html(_)
_strip_html(text) ==
    LET tags == {j \in 1..Len(text) :
                     text[j] = "<" /\ Find(text, <<">">>, j + 1) >= j + 2}
    IN  IF tags = {} THEN text
        ELSE LET lt == CHOOSE j \in tags : \A k \in tags : j <= k
             IN  SubSeq(text, 1, lt - 1)
                 \o _strip_html(Drop(text, Find(text, <<">">>, lt + 1)))

\* re.findall(r"<p[^>]*>(.*?)</p>", s, flags=re.S) from index i on
RECURSIVE FindParagraphs(_, _)
FindParagraphs(s, i) ==
    LET open == Find(s, <<"<", "p">>, i)
        gt == Find(s, <<">">>, open + 2)
        close == Find(s, <<"<", "/", "p", ">">>, gt + 1)
    IN  IF open = 0 \/ gt = 0 \/ close = 0 THEN <<>>
        ELSE <<SubSeq(s, gt + 1, close - 1)>> \o FindParagraphs(s, close + 4)

\* _split_paragraphs
_split_paragraphs(summary_html) ==
    LET found == FindParagraphs(summary_html, 1)
        blocks == SplitOn(summary_html, <<"\n", "\n">>)
        paras == IF found # <<>> THEN found
                 ELSE SelectSeq([k \in 1..Len(blocks) |-> Strip(blocks[k])],
                                LAMBDA b : b # <<>>)
    IN  [k \in 1..Min(3, Len(paras)) |-> Strip(_strip_html(paras[k]))]

Punctuation == {".", "!", "?"}

\* the end of the run of "s" that starts at index i
RECURSIVE RunEnd(_, _)
RunEnd(s, i) == IF i < Len(s) /\ s[i + 1] = "s" THEN RunEnd(s, i + 1) ELSE i

\* where r"(?<=[.!?])\\s+" first matches in s at an index >= i: after one of
\* . ! ? a backslash and then one or more letters s; 0 if nowhere
FindBoundary(s, i) ==
    LET at == {j \in i..(Len(s) - 1) :
                   /\ j >= 2
                   /\ s[j - 1] \in Punctuation
                   /\ s[j] = "\\"
                   /\ s[j + 1] = "s"}
    IN  IF at = {} THEN 0 ELSE CHOOSE j \in at : \A k \in at : j <= k

\* re.split(r"(?<=[.!?])\\s+", s)
RECURSIVE SplitSentences(_)
SplitSentences(s) ==
    LET i == FindBoundary(s, 1)
    IN  IF i = 0 THEN <<s>>
        ELSE <<SubSeq(s, 1, i - 1)>> \o SplitSentences(Drop(s, RunEnd(s, i + 1)))

\* _sentences
_sentences(s) ==
    LET parts == SplitSentences(Strip(s))
    IN  SelectSeq([k \in 1..Len(parts) |-> Strip(parts[k])],
                  LAMBDA q : q # <<>>)

Ellipsis == <<"ELLIPSIS">>

\* _shorten
_shorten(sentence, max_words) ==
    LET words == SplitWords(sentence)
    IN  Join(Take(words, max_words), <<" ">>)
        \o (IF Len(words) > max_words THEN Ellipsis ELSE <<>>)

\* len(line) + len(w) + (1 if line else 0) <= max_len
Fits_SeparatorForgotten(line, w, max_len) == Len(line) + Len(w) <= max_len
Fits(line, w, max_len) ==
    Len(line) + Len(w) + (IF line # <<>> THEN 1 ELSE 0) <= max_len

\* _wrap_label, the loop over the words from word k on
RECURSIVE WrapLoop(_, _, _, _, _)
WrapLoop(words, k, lines, line, max_len) ==
    IF k > Len(words)
    THEN IF line # <<>> THEN Append(lines, line) ELSE lines
    ELSE IF Fits(line, words[k], max_len)
         THEN WrapLoop(words, k + 1, lines,
                       Strip(line \o <<" ">> \o words[k]), max_len)
         ELSE WrapLoop(words, k + 1, Append(lines, line), words[k], max_len)

\* "\\n": the line break of a DOT label, a backslash and the letter n
LabelBreak == <<"\\", "n">>

\* _wrap_label
_wrap_label(text, max_len) ==
    Join(WrapLoop(SplitWords(text), 1, <<>>, <<>>, max_len), LabelBreak)

\* the words _shorten keeps of a leaf's sentence
ShortenWords == 12

heads ==
    <<<<"D", "e", "f", "i", "n", "i", "t", "i", "o", "n", " ", "&", " ",
        "B", "u", "i", "l", "d", "i", "n", "g", " ",
        "B", "l", "o", "c", "k", "s">>,
      <<"A", "r", "c", "h", "i", "t", "e", "c", "t", "u", "r", "e", " ",
        "BULLET", " ", "S", "e", "c", "u", "r", "i", "t", "y", " ",
        "BULLET", " ", "O", "p", "s">>,
      <<"U", "s", "e", " ", "C", "a", "s", "e", "s", " ", "BULLET", " ",
        "B", "e", "n", "e", "f", "i", "t", "s", " ", "BULLET", " ",
        "C", "o", "s", "t", "s">>>>

\* One statement of the DOT text.  A node statement is
\*   <id> [label="<label>", ...];  and an edge statement  <from> -> <id>;
\* the ids are root, b<i> and l<i>_<j>; the fixed attributes are left out.
NodeId(kind, i, j) == [kind |-> kind, i |-> i, j |-> j]
RootId == NodeId("root", 0, 0)
NodeStmt(id, label) == [stmt |-> "node", id |-> id, from |-> id, label |-> label]
EdgeStmt(from, to) == [stmt |-> "edge", id |-> to, from |-> from, label |-> <<>>]

\* the sentences of paragraph i that become leaves
LeafSentences_All(paras, i, leaves_per_para) == _sentences(paras[i + 1])
LeafSentences(paras, i, leaves_per_para) ==
    Take(_sentences(paras[i + 1]), leaves_per_para)

\* build_summary_dot, the statements of the leaves under branch i
LeafStmts(paras, i, leaves_per_para, wrap_len) ==
    IF i < Len(paras)
    THEN LET sents == LeafSentences(paras, i, leaves_per_para)
         IN  Flatten([j \in 1..Len(sents) |->
                 <<NodeStmt(NodeId("l", i, j - 1),
                            _wrap_label(_shorten(sents[j], ShortenWords),
                                        wrap_len)),
                   EdgeStmt(NodeId("b", i, 0), NodeId("l", i, j - 1))>>])
    ELSE <<>>

\* build_summary_dot, the statements of branch i
BranchStmts(paras, i, leaves_per_para, wrap_len) ==
    <<NodeStmt(NodeId("b", i, 0), _wrap_label(heads[i + 1], wrap_len)),
      EdgeStmt(RootId, NodeId("b", i, 0))>>
    \o LeafStmts(paras, i, leaves_per_para, wrap_len)

\* build_summary_dot: the node and edge statements between the preamble of
\* the digraph and its closing brace, in the order they are written
build_summary_dot(topic, summary_html, leaves_per_para, wrap_len) ==
    LET paras == _split_paragraphs(summary_html)
    IN  <<NodeStmt(RootId, _wrap_label(topic, wrap_len))>>
        \o Flatten([k \in 1..Len(heads) |->
               BranchStmts(paras, k - 1, leaves_per_para, wrap_len)])

(***************************************************************************)
(* The diagram builder under check: summaries in the two layouts           *)
(* _split_paragraphs reads, made of paragraphs of whole sentences.         *)
(***************************************************************************)
MaxParas == 3
MaxLeaves == 2

\* a sentence of n words: its words in order, the last one closing it
SentenceOf(n, last) == [k \in 1..n |-> IF k = n THEN last ELSE <<"w">>]

\* a closing word, and a closing word that holds a backslash and an s
Closing == <<"w", ".">>
ClosingEscaped == <<"w", ".", "\\", "s", "v", "!">>

\* a paragraph is a sequence of sentences
ParagraphKinds ==
    { <<SentenceOf(ShortenWords, Closing)>>,
      <<SentenceOf(ShortenWords + 1, Closing)>>,
      <<SentenceOf(2, Closing), SentenceOf(ShortenWords - 1, Closing)>>,
      <<SentenceOf(1, Closing), SentenceOf(1, Closing), SentenceOf(1, Closing)>>,
      <<SentenceOf(2, ClosingEscaped), SentenceOf(1, Closing)>> }

\* the text of a paragraph: words and sentences one blank apart
ParagraphText(p) ==
    Join([k \in 1..Len(p) |-> Join(p[k], <<" ">>)], <<" ">>)

\* the summary text: '<p>..</p>' blocks as SUMMARY_PROMPT asks for them, or
\* plain blocks one empty line apart
SummaryText(paras, layout) ==
    IF layout = "tagged"
    THEN Join([k \in 1..Len(paras) |->
                  <<"<", "p", ">">> \o ParagraphText(paras[k])
                      \o <<"<", "/", "p", ">">>],
              <<"\n">>)
    ELSE Join([k \in 1..Len(paras) |-> ParagraphText(paras[k])],
              <<"\n", "\n">>)

WrapLens == {16, 24}

DiagramTopics == {<<"t">>, <<"t", "o", "p", " ", "i", "c">>}

DiagramInputs ==
    { [topic |-> t, paras |-> ps, layout |-> l, summary |-> SummaryText(ps, l),
       leaves_per_para |-> lv, wrap_len |-> wl] :
        t \in DiagramTopics, ps \in SeqsOf(ParagraphKinds, 1, MaxParas),
        l \in {"tagged", "plain"}, lv \in 0..MaxLeaves, wl \in WrapLens }

InitDiagram ==
    /\ arg \in DiagramInputs
    /\ fn = "input"
    /\ ret = <<>>
    /\ ss = <<>>
    /\ err = "none"
    /\ rows = <<>>
    /\ csv = <<>>
    /\ calls = <<>>

BuildSummaryDot ==
    /\ fn = "input"
    /\ fn' = "build_summary_dot"
    /\ ret' = build_summary_dot(arg.topic, arg.summary, arg.leaves_per_para,
                                arg.wrap_len)
    /\ UNCHANGED <<ss, err, rows, csv, arg, calls>>

NextDiagram == BuildSummaryDot

SpecDiagram == InitDiagram /\ [][NextDiagram]_vars

(***************************************************************************)
(* _wrap_label under check: texts of words of every length up to           *)
(* MaxWordLen, any kind of whitespace between and around them.             *)
(***************************************************************************)
MaxWordLen == 4
MaxWrapWords == 4
MaxWrapLen == 5

WordOfLen(k) == [i \in 1..k |-> "a"]

WrapWords == {WordOfLen(k) : k \in 1..MaxWordLen}

Gaps == {<<" ">>, <<" ", " ">>, <<"\n">>}

WrapInputs ==
    { [words |-> ws, text |-> g \o Join(ws, g), max_len |-> m] :
        ws \in SeqsOf(WrapWords, 0, MaxWrapWords), g \in Gaps,
        m \in 1..MaxWrapLen }

InitWrap ==
    /\ arg \in WrapInputs
    /\ fn = "input"
    /\ ret = <<>>
    /\ ss = <<>>
    /\ err = "none"
    /\ rows = <<>>
    /\ csv = <<>>
    /\ calls = <<>>

WrapLabel ==
    /\ fn = "input"
    /\ fn' = "_wrap_label"
    /\ ret' = _wrap_label(arg.text, arg.max_len)
    /\ UNCHANGED <<ss, err, rows, csv, arg, calls>>

NextWrap == WrapLabel

SpecWrap == InitWrap /\ [][NextWrap]_vars

(***************************************************************************)
(* Claims about the parsers (checked under SpecParser)                     *)
(***************************************************************************)
\* The cards of the blocks bs: question and answer with prefix and padding gone
CardsOf(bs) ==
    [k \in 1..Len(bs) |-> [question |-> bs[k].q, answer |-> bs[k].a]]

\* C1: a reply of exactly n well-formed blocks 'Q: <question>' / 'A: <answer>'
\* gives, for the requested count n, exactly n cards in the order of the
\* blocks, card i holding the question and the answer of block i without the
\* prefix and without the whitespace around them.
C1_WellFormedReplyGivesNCards ==
    (fn = "generate_flashcards" /\ arg.family = "cards"
        /\ arg.n = Len(arg.blocks))
    => ret = CardsOf(arg.blocks)

\* C1, witness: three blocks, one of them padded, parsed for n = 3
C1_Witness ==
    /\ fn = "generate_flashcards"
    /\ arg.family = "cards"
    /\ arg.n = 3
    /\ Len(arg.blocks) = 3
    /\ arg.blocks[2].pad.lead # <<>>
    /\ arg.blocks[1].q # arg.blocks[3].q
    /\ Len(ret) = 3

\* C3: the block 'Q: q' / 'Options: A) x B) y C) z D) w' / 'Answer: y' gives
\* one item with question q, options [x, y, z, w] and answer y, whatever the
\* texts q, x, y, z, w are.
C3_Claim ==
    (fn = "generate_quiz" /\ arg.family = "quiz")
    => ret = <<[question |-> arg.blocks[1].q,
                options |-> arg.blocks[1].o,
                answer |-> arg.blocks[1].o[2]]>>

IsAnswered(ls, i) ==
    /\ ls[i].kind = "Q"
    /\ \E j \in (i + 1)..Len(ls) :
           ls[j].kind = "A" /\ \A m \in (i + 1)..(j - 1) : ls[m].kind # "Q"

FirstAnswer(ls, i) ==
    CHOOSE j \in (i + 1)..Len(ls) :
        ls[j].kind = "A" /\ \A m \in (i + 1)..(j - 1) : ls[m].kind \notin {"Q", "A"}

RECURSIVE AnsweredFrom(_, _)
AnsweredFrom(ls, i) ==
    IF i > Len(ls) THEN <<>>
    ELSE IF IsAnswered(ls, i) THEN <<i>> \o AnsweredFrom(ls, i + 1)
    ELSE AnsweredFrom(ls, i + 1)

\* one card per answered 'Q:' line, paired with the first 'A:' line after it
PairedCards(ls) ==
    LET idx == AnsweredFrom(ls, 1)
    IN  [k \in 1..Len(idx) |->
            [question |-> ls[idx[k]].text,
             answer |-> ls[FirstAnswer(ls, idx[k])].text]]

\* C5: when n is not reached, the cards are those of the answered 'Q:'
\* lines (as many as there are 'Q:' lines less the unanswered ones), each
\* pairing the 'A:' line with the nearest 'Q:' line before it.
C5_Claim ==
    (fn = "generate_flashcards" /\ arg.family = "lines" /\ Len(ret) < arg.n)
    => ret = PairedCards(arg.lines)

\* every item the reply yields, in encounter order
AllCards(content) == generate_flashcards(content, Len(content) + 1)
AllQuizzes(content) == generate_quiz(content, Len(content) + 1)

\* C6: both parsers return at most n items, and those are the first n items
\* the reply yields in encounter order.
C6_AtMostNFirstItems ==
    /\ fn = "generate_flashcards"
       => Len(ret) <= arg.n /\ ret = Take(AllCards(arg.reply), arg.n)
    /\ fn = "generate_quiz"
       => Len(ret) <= arg.n /\ ret = Take(AllQuizzes(arg.reply), arg.n)

\* C6, witness: a reply that yields three cards, parsed for n = 2
C6_Witness ==
    /\ fn = "generate_flashcards"
    /\ arg.n = 2
    /\ Len(AllCards(arg.reply)) = 3
    /\ Len(ret) = 2

\* the last 'Q:' line before line a, 0 if there is none
OwnQuestion(ls, a) ==
    LET qs == {q \in 1..(a - 1) : ls[q].kind = "Q"}
    IN  IF qs = {} THEN 0 ELSE CHOOSE q \in qs : \A p \in qs : p <= q

\* line a is an 'Answer:' line that closes an item: a 'Q:' line before it
\* is still open
ClosesItem(ls, a) ==
    /\ ls[a].kind = "Ans"
    /\ OwnQuestion(ls, a) > 0
    /\ \A m \in (OwnQuestion(ls, a) + 1)..(a - 1) : ls[m].kind # "Ans"

\* the 'Answer:' lines that close an item, in order
RECURSIVE ClosingFrom(_, _)
ClosingFrom(ls, a) ==
    IF a > Len(ls) THEN <<>>
    ELSE IF ClosesItem(ls, a) THEN <<a>> \o ClosingFrom(ls, a + 1)
    ELSE ClosingFrom(ls, a + 1)

\* the 'Options:' lines between the item's own 'Q:' line and line a
OwnOptionLines(ls, a) ==
    {o \in (OwnQuestion(ls, a) + 1)..(a - 1) : ls[o].kind = "O"}

\* C16: the options of every item generate_quiz returns come from an
\* 'Options:' line between the item's own 'Q:' line and its 'Answer:' line;
\* an 'Options:' line before the item's 'Q:' line is never attached to it.
C16_Claim ==
    (fn = "generate_quiz" /\ arg.family = "quizlines")
    => \A k \in 1..Len(ret) :
           LET a == ClosingFrom(arg.lines, 1)[k]
               own == OwnOptionLines(arg.lines, a)
           IN  IF own = {} THEN Len(ret[k].options) = 0
               ELSE \E o \in own :
                        ret[k].options
                            = Take(ParseOptions(arg.lines[o].line), 4)

(***************************************************************************)
(* Claims about the session (checked under Spec)                           *)
(***************************************************************************)
\* C2: on submit an item is scored "Correct" exactly when the text the user
\* chose for it (an option of the item; nothing if the choice is unset) is
\* the item's answer text, and "Wrong" otherwise; an item whose answer is
\* none of its options is scored "Wrong" whatever the choice.
C2_CorrectIffChoiceIsAnswer ==
    fn = "submit" =>
        \A k \in 1..Len(ss.quiz) :
            LET q == ss.quiz[k]
                c == arg[k - 1]
                hit == c # 1 /\ q.options[c - 1] = q.answer
            IN  /\ rows[k].Result = (IF hit THEN Correct ELSE Wrong)
                /\ (\A o \in 1..Len(q.options) : q.options[o] # q.answer)
                       => rows[k].Result = Wrong

\* C2, witness: a submission with an item answered correctly and an item
\* whose answer is none of its options, an option chosen for it
C2_Witness ==
    /\ fn = "submit"
    /\ Len(ss.quiz) = 2
    /\ rows[1].Result = Correct
    /\ \A o \in 1..Len(ss.quiz[2].options) :
           ss.quiz[2].options[o] # ss.quiz[2].answer
    /\ arg[1] # 1
    /\ rows[2].Result = Wrong

\* what C7 calls the session content
SessionContent(s) ==
    <<s.summary, s.generated_topic, s.flashcards, s.quiz, s.answers,
      s.flashcards_order>>

\* C7: a Generate click during which a model call fails leaves the session
\* content (summary, generated topic, flashcards, quiz, answers, flashcard
\* order) as it was before the click.
C7_Claim ==
    [][(fn' = "generate" /\ err' = "model_call")
          => SessionContent(ss') = SessionContent(ss)]_vars

\* one CSV field by the rules of the flashcard CSV: double quotes doubled,
\* newlines turned into spaces, the whole in one pair of double quotes
EscapedField(text) ==
    <<Quote>>
    \o Replace(Replace(text, <<Quote>>, <<Quote, Quote>>), <<"\n">>, <<" ">>)
    \o <<Quote>>

RECURSIVE EscapedRows(_, _)
EscapedRows(table, k) ==
    IF k > Len(table) THEN <<>>
    ELSE EscapedField(table[k].Question) \o <<",">>
         \o EscapedField(IF table[k].YourAnswer = NONE THEN <<>>
                         ELSE table[k].YourAnswer) \o <<",">>
         \o EscapedField(table[k].CorrectAnswer) \o <<",">>
         \o EscapedField(table[k].Result) \o <<"\n">>
         \o EscapedRows(table, k + 1)

\* C8: under its header, the quiz-results CSV holds one row per item whose
\* four fields are each wrapped in one pair of double quotes, with every
\* double quote inside doubled and every newline turned into a space.
C8_Claim ==
    fn = "submit" => csv = CsvHeader \o EscapedRows(rows, 1)

(***************************************************************************)
(* Claims about the diagram (checked under SpecDiagram and SpecWrap)       *)
(***************************************************************************)
\* the lines of a label and its words, in order
LabelLines(label) == SplitOn(label, LabelBreak)
LabelWords(label) ==
    LET lines == LabelLines(label)
    IN  Flatten([k \in 1..Len(lines) |-> SplitWords(lines[k])])

\* the node statements of one kind and the edge statements into a node
NodesOf(kind) ==
    {k \in 1..Len(ret) : ret[k].stmt = "node" /\ ret[k].id.kind = kind}
EdgesTo(id) == {k \in 1..Len(ret) : ret[k].stmt = "edge" /\ ret[k].id = id}
OneEdgeFrom(from, id) ==
    Cardinality(EdgesTo(id)) = 1 /\ \A e \in EdgesTo(id) : ret[e].from = from

\* one root, three branches under it, at most leaves_per_para leaves under
\* each branch
DiagramShape ==
    /\ Cardinality(NodesOf("root")) = 1
    /\ Cardinality(NodesOf("b")) = 3
    /\ \A k \in NodesOf("b") : OneEdgeFrom(RootId, ret[k].id)
    /\ \A i \in 0..2 :
           Cardinality({k \in NodesOf("l") : ret[k].id.i = i})
               <= arg.leaves_per_para
    /\ \A k \in NodesOf("l") :
           OneEdgeFrom(NodeId("b", ret[k].id.i, 0), ret[k].id)

\* leaf j of branch i shows sentence j of paragraph i: all its words when
\* they are no more than 12, else the first 12 and then the ellipsis
LeafShowsItsSentence(node) ==
    LET p == arg.paras[node.id.i + 1]
    IN  /\ node.id.j + 1 <= Len(p)
        /\ LET words == p[node.id.j + 1]
           IN  LabelWords(node.label) =
                   IF Len(words) <= 12 THEN words
                   ELSE SubSeq(words, 1, 11) \o <<words[12] \o Ellipsis>>

\* C9: for a summary of 3 paragraphs build_summary_dot emits exactly one
\* root node, exactly 3 branch nodes each with one edge from the root, and
\* under each branch at most leaves_per_para leaf nodes each with one edge
\* from its branch; every leaf label holds at most 12 words of its sentence,
\* with the ellipsis appended exactly when the sentence has more than 12.
C9_Claim ==
    (fn = "build_summary_dot" /\ Len(arg.paras) = 3)
    => /\ DiagramShape
       /\ \A k \in NodesOf("l") : LeafShowsItsSentence(ret[k])

\* C10: every line _wrap_label produces is at most max_len characters long,
\* unless it is a single word of the text that is itself longer than
\* max_len, alone on its line.
C10_LinesFitOrSingleWord ==
    fn = "_wrap_label"
    => \A k \in 1..Len(LabelLines(ret)) :
           LET line == LabelLines(ret)[k]
           IN  \/ Len(line) <= arg.max_len
               \/ \E i \in 1..Len(arg.words) :
                      line = arg.words[i] /\ Len(arg.words[i]) > arg.max_len

\* C10, witness: a label with a line of two words that fills max_len to the
\* last character and a line that is one word longer than max_len
C10_Witness ==
    /\ fn = "_wrap_label"
    /\ \E k \in 1..Len(LabelLines(ret)) :
           /\ Len(LabelLines(ret)[k]) = arg.max_len
           /\ Len(SplitWords(LabelLines(ret)[k])) = 2
    /\ \E k \in 1..Len(LabelLines(ret)) :
           /\ Len(LabelLines(ret)[k]) > arg.max_len
           /\ Len(SplitWords(LabelLines(ret)[k])) = 1

\* the leaf nodes under branch i
LeavesUnder(i) == {k \in NodesOf("l") : ret[k].id.i = i}

\* C12: paragraph i is split into sentences at every '.', '!' or '?' that
\* whitespace follows, and the first leaves_per_para of them become the
\* leaves of branch i: a paragraph of k such sentences gives
\* min(k, leaves_per_para) leaves under its branch.
C12_Claim ==
    fn = "build_summary_dot"
    => \A i \in 0..(Min(3, Len(arg.paras)) - 1) :
           Cardinality(LeavesUnder(i))
               = Min(Len(arg.paras[i + 1]), arg.leaves_per_para)

(***************************************************************************)
(* Claims about the model client (checked under SpecClient)                *)
(***************************************************************************)
\* C11: with the API credential absent (the variable unset or empty), every
\* model-client call, and so every generate_summary, generate_flashcards and
\* generate_quiz call, fails with the configuration error and no request has
\* gone out to the model API (none sent, none retried).
C11_NoRequestWithoutCredential ==
    (fn \in ClientFns /\ arg.env.key \in {NONE, <<>>})
    => /\ ret.raised = ConfigError
       /\ ret.requests = 0
       /\ ret.value = NONE

\* C11, witness: generate_quiz with the credential unset, the package
\* installed and an API that would have answered
C11_Witness ==
    /\ fn = "generate_quiz"
    /\ arg.env.key = NONE
    /\ arg.env.openai_installed
    /\ arg.reply \in QuizReplies
    /\ ret.raised = ConfigError
    /\ ret.requests = 0

(***************************************************************************)
(* Claims about the model calls and the session state (checked under Spec) *)
(***************************************************************************)
\* the calls the last run started, by name and in order
Started ==
    LET starts == SelectSeq(calls, LAMBDA e : e.ev = "start")
    IN  [k \in 1..Len(starts) |-> starts[k].call]

\* no call starts before the call before it has returned or raised, and
\* nothing is called after a call that raised
NoOverlap ==
    \A k \in 1..Len(calls) :
        IF k % 2 = 1
        THEN /\ calls[k].ev = "start"
             /\ k < Len(calls)
             /\ calls[k + 1].call = calls[k].call
        ELSE /\ calls[k].ev \in {"returned", "raised"}
             /\ calls[k].ev = "raised" => k = Len(calls)

IsPrefix(s, t) == Len(s) <= Len(t) /\ s = SubSeq(t, 1, Len(s))

\* C13 as stated: every user action triggers at most one model call, and
\* calls never overlap.
C13_Claim == Len(Started) <= 1 /\ NoOverlap

\* C13, amended: Generate makes at most three model calls, one after the
\* other in the order summary (left out when the topic has its summary),
\* flashcards, quiz, and stops at the first that fails; submit, shuffle and
\* reset make none; calls never overlap.
C13_AtMostThreeCallsInSequence ==
    /\ NoOverlap
    /\ fn \in {"submit", "shuffle", "reset"} => calls = <<>>
    /\ fn = "generate"
       => /\ Len(Started) \in 1..3
          /\ \/ IsPrefix(Started, <<"generate_summary", "generate_flashcards",
                                    "generate_quiz">>)
             \/ IsPrefix(Started, <<"generate_flashcards", "generate_quiz">>)
          /\ err = "none" <=> calls[Len(calls)].ev = "returned"
          /\ err = "none" => Started[Len(Started)] = "generate_quiz"

\* C13, witness: a Generate whose three calls all returned, and then a
\* Generate for the same topic that made two calls, the second one failing
C13_Witness ==
    /\ fn = "generate"
    /\ err = "model_call"
    /\ Started = <<"generate_flashcards", "generate_quiz">>
    /\ calls[Len(calls)].ev = "raised"
    /\ ss.quiz_epoch = 1

\* the answer state has one entry per item of the current quiz
OneEntryPerItem == DOMAIN ss.answers = 0..(Len(ss.quiz) - 1)

\* C14: after every successful Generate and after every Reset Answers the
\* answer state holds exactly one entry per item of the current quiz, each
\* of them unset; at any other time it holds one entry per item, each unset
\* or the text of one of that item's options.
C14_AnswersUnsetOrAnOption ==
    /\ OneEntryPerItem
    /\ \A i \in DOMAIN ss.answers :
           \/ ss.answers[i] = NONE
           \/ \E k \in 1..Len(ss.quiz[i + 1].options) :
                  ss.answers[i] = ss.quiz[i + 1].options[k]
    /\ ((fn = "generate" /\ err = "none") \/ fn = "reset")
       => \A i \in DOMAIN ss.answers : ss.answers[i] = NONE

\* C14, witness: Reset Answers on a quiz of two items, after a submission
\* that had an option chosen and scored
C14_Witness ==
    /\ fn = "reset"
    /\ Len(ss.quiz) = 2
    /\ ss.score >= 1
    /\ OneEntryPerItem
    /\ \A i \in DOMAIN ss.answers : ss.answers[i] = NONE

\* order holds each of the indices 0..k-1 exactly once
IsPermutationOfIndices(order, k) ==
    /\ Len(order) = k
    /\ \A i \in 0..(k - 1) : \E j \in 1..Len(order) : order[j] = i

\* C15: in every reachable session state flashcards_order is empty or a
\* permutation of the indices 0..len(flashcards)-1 of the current flashcard
\* list, so the view never indexes past the end and never leaves out a card.
C15_Claim ==
    \/ Len(ss.flashcards_order) = 0
    \/ IsPermutationOfIndices(ss.flashcards_order, Len(ss.flashcards))

============================================================================
